---- MODULE Spec2Model ----
(***************************************************************************)
(* Model of the chat-orchestration subsystem (ModelRouterService) of the   *)
(* AI-APIChatTool backend: credential resolution, rate limiting over the   *)
(* call log, retrying dispatch to a provider, conversation persistence and *)
(* the audit log.                                                          *)
(*                                                                         *)
(* One chat_completion call is run by a process in steps separated by the  *)
(* suspension points of the coroutine (the outbound provider call and the  *)
(* back-off sleep); the synchronous code between two suspension points is  *)
(* one action.                                                             *)
(***************************************************************************)
EXTENDS Integers, Sequences, FiniteSets, TLC

VARIABLES
    now,          \* wall clock, seconds
    fkEnforced,   \* whether the database enforces the declared foreign keys
    callLog,      \* table api_call_logs, in insertion order
    convs,        \* table conversations: conversation_id -> row
    messages,     \* table messages, in insertion order
    userConfigs,  \* table user_model_configs: config_id -> row
    proc,         \* per process: position and locals of its chat_completion
    nCalls,       \* number of chat_completion calls started so far
    limiterLog,   \* history: the calls that reached the rate limiter, in order
    turnLog,      \* history: the calls that returned for a given conversation_id
    pure          \* argument and result of a pure function of the service under study

vars == <<now, fkEnforced, callLog, convs, messages, userConfigs, proc, nCalls,
          limiterLog, turnLog, pure>>

----------------------------------------------------------------------------
(* Bounds of the exploration.                                              *)

MaxCalls == 1       \* calls started in a run of Spec (all request shapes)
MaxSeqCalls == 2    \* calls started in a run of SpecSeq (one user's turns)
MaxTicks == 3       \* clock ticks in a run
MaxLines == 3       \* lines of an event-stream body in a run of SpecPure
MaxNameLen == 3     \* words of a model name in a run of SpecPure

TickStep == 30      \* seconds the clock advances in one tick

----------------------------------------------------------------------------
(* Program constants.                                                      *)

max_retries == 3          \* ModelRouterService.max_retries
retry_delay == 1          \* ModelRouterService.retry_delay, seconds
WindowSeconds == 60       \* timedelta(minutes=1) in _check_rate_limit
RecentCallsLimit == 1000  \* limit=1000 in _check_rate_limit
DefaultRateLimit == 60    \* fallback rate limit in _check_rate_limit
MaxMessageChars == 10000  \* _validate_user_input
MaxTemperature == 20      \* upper temperature bound 2, in tenths
MaxMaxTokens == 8192      \* _validate_user_input

None == -1                \* Python None / SQL NULL for integer values

Users == {1, 2}
Procs == {1, 2}

----------------------------------------------------------------------------
(* Reference data: the model catalog (table system_models).                *)

SystemModels ==
    [ i \in 1..7 |->
        CASE i = 1 -> [model_id |-> 1, model_name |-> "deepseek-chat", model_provider |-> "deepseek",
                       is_available |-> TRUE, rate_limit_per_minute |-> 1, max_tokens |-> 4096]
          [] i = 2 -> [model_id |-> 2, model_name |-> "gpt-4", model_provider |-> "openai",
                       is_available |-> FALSE, rate_limit_per_minute |-> 60, max_tokens |-> 4096]
          [] i = 3 -> [model_id |-> 3, model_name |-> "gpt-3.5-turbo", model_provider |-> "OpenAI",
                       is_available |-> TRUE, rate_limit_per_minute |-> 2, max_tokens |-> 4096]
          [] i = 4 -> [model_id |-> 4, model_name |-> "ernie-bot", model_provider |-> "baidu",
                       is_available |-> TRUE, rate_limit_per_minute |-> 60, max_tokens |-> 4096]
          [] i = 5 -> [model_id |-> 5, model_name |-> "claude-3", model_provider |-> "anthropic",
                       is_available |-> TRUE, rate_limit_per_minute |-> 60, max_tokens |-> 4096]
          [] i = 6 -> [model_id |-> 6, model_name |-> "my-llm", model_provider |-> "custom",
                       is_available |-> TRUE, rate_limit_per_minute |-> 60, max_tokens |-> 4096]
          [] i = 7 -> [model_id |-> 7, model_name |-> "ernie-speed", model_provider |-> "wenxin",
                       is_available |-> TRUE, rate_limit_per_minute |-> 60, max_tokens |-> 4096] ]

ModelIds == DOMAIN SystemModels

\* SystemModelRepository.get_by_name: the row with that name, or None
get_by_name(model_name) ==
    IF \E i \in ModelIds : SystemModels[i].model_name = model_name
    THEN (CHOOSE i \in ModelIds : SystemModels[i].model_name = model_name)
    ELSE None

\* str.lower() on the provider names of the catalog
Lower(s) == IF s = "OpenAI" THEN "openai" ELSE s

\* settings.DEFAULT_API_KEYS: provider name -> system-wide secret ("" = not set)
DEFAULT_API_KEYS ==
    [ p \in {"openai", "deepseek", "wenxin"} |->
        CASE p = "openai" -> ""
          [] p = "deepseek" -> "sk-sys-deepseek"
          [] p = "wenxin" -> "sk-sys-wenxin" ]

----------------------------------------------------------------------------
(* Stored secrets.  An encrypted secret is a blob; decrypt_api_key returns  *)
(* the plaintext of a well-formed blob and raises on anything else.         *)

DecryptTable == [ b \in {"enc:sk-u1-m4"} |-> "sk-u1-m4" ]

CanDecrypt(blob) == blob \in DOMAIN DecryptTable

decrypt_api_key(blob) == DecryptTable[blob]

\* rows of user_model_configs present when the service starts
InitUserConfigs ==
    [ i \in 1..7 |->
        CASE i = 1 -> [config_id |-> 1, user_id |-> 2, model_id |-> 1, is_enabled |-> FALSE,
                       api_key |-> "sk-u2-m1", api_key_encrypted |-> "", last_used_at |-> None]
          [] i = 2 -> [config_id |-> 2, user_id |-> 1, model_id |-> 3, is_enabled |-> TRUE,
                       api_key |-> "sk-u1-m3", api_key_encrypted |-> "", last_used_at |-> None]
          [] i = 3 -> [config_id |-> 3, user_id |-> 2, model_id |-> 3, is_enabled |-> TRUE,
                       api_key |-> "", api_key_encrypted |-> "garbage", last_used_at |-> None]
          [] i = 4 -> [config_id |-> 4, user_id |-> 1, model_id |-> 4, is_enabled |-> TRUE,
                       api_key |-> "", api_key_encrypted |-> "enc:sk-u1-m4", last_used_at |-> None]
          [] i = 5 -> [config_id |-> 5, user_id |-> 1, model_id |-> 5, is_enabled |-> TRUE,
                       api_key |-> "sk-u1-m5", api_key_encrypted |-> "", last_used_at |-> None]
          [] i = 6 -> [config_id |-> 6, user_id |-> 1, model_id |-> 6, is_enabled |-> TRUE,
                       api_key |-> "sk-u1-m6", api_key_encrypted |-> "", last_used_at |-> None]
          [] i = 7 -> [config_id |-> 7, user_id |-> 2, model_id |-> 7, is_enabled |-> TRUE,
                       api_key |-> "", api_key_encrypted |-> "", last_used_at |-> None] ]

\* rows of conversations and messages present when the service starts
InitConvs ==
    [ i \in 1..4 |->
        CASE i = 1 -> [conversation_id |-> 1, user_id |-> 1, model_id |-> 3, title |-> "custom",
                       message_count |-> 2, total_tokens |-> 10, is_deleted |-> FALSE]
          [] i = 2 -> [conversation_id |-> 2, user_id |-> 2, model_id |-> 1, title |-> "新对话",
                       message_count |-> 0, total_tokens |-> 0, is_deleted |-> FALSE]
          [] i = 3 -> [conversation_id |-> 3, user_id |-> 1, model_id |-> 3, title |-> "custom",
                       message_count |-> 0, total_tokens |-> 0, is_deleted |-> TRUE]
          [] i = 4 -> [conversation_id |-> 4, user_id |-> 1, model_id |-> 3,
                       title |-> "New Conversation plans",
                       message_count |-> 0, total_tokens |-> 0, is_deleted |-> FALSE] ]

InitMessages ==
    << [conversation_id |-> 1, role |-> "user", tokens_used |-> 0, model_id |-> None],
       [conversation_id |-> 1, role |-> "assistant", tokens_used |-> 10, model_id |-> 3] >>

MissingConv == 9    \* a conversation id no row carries

----------------------------------------------------------------------------
(* Requests.  A message is described by its character counts: len chars in  *)
(* all, stripped chars once surrounding whitespace is removed, collapsed    *)
(* chars once every inner run of whitespace is one space as well, cjk of    *)
(* them in U+4E00..U+9FFF.  Temperature is in tenths.                       *)

MsgHello == [len |-> 8, stripped |-> 8, collapsed |-> 8, cjk |-> 0]
MsgCjk == [len |-> 7, stripped |-> 7, collapsed |-> 7, cjk |-> 3]
MsgBlank == [len |-> 2, stripped |-> 0, collapsed |-> 0, cjk |-> 0]
MsgEmpty == [len |-> 0, stripped |-> 0, collapsed |-> 0, cjk |-> 0]
MsgLong == [len |-> 10001, stripped |-> 10001, collapsed |-> 10001, cjk |-> 0]
MsgSentence == [len |-> 44, stripped |-> 40, collapsed |-> 36, cjk |-> 0]

NoReq ==
    [user_id |-> 0, model_name |-> "", message |-> MsgEmpty, conversation_id |-> None,
     temperature |-> 0, max_tokens |-> 0, stream |-> FALSE]

\* faulty variant of _validate_user_input: the message is tested without strip()
_validate_user_input_unstripped(message, model_name, temperature, max_tokens) ==
    IF message.len = 0 THEN "ValueError"
    ELSE IF message.len > MaxMessageChars THEN "ValueError"
    ELSE IF temperature < 0 \/ temperature > MaxTemperature THEN "ValueError"
    ELSE IF max_tokens < 1 \/ max_tokens > MaxMaxTokens THEN "ValueError"
    ELSE IF model_name = "" THEN "ValueError"
    ELSE ""

\* ModelRouterService._validate_user_input: the exception raised, "" for none
_validate_user_input(message, model_name, temperature, max_tokens) ==
    IF message.len = 0 \/ message.stripped = 0 THEN "ValueError"
    ELSE IF message.stripped > MaxMessageChars THEN "ValueError"
    ELSE IF temperature < 0 \/ temperature > MaxTemperature THEN "ValueError"
    ELSE IF max_tokens < 1 \/ max_tokens > MaxMaxTokens THEN "ValueError"
    ELSE IF model_name = "" THEN "ValueError"
    ELSE ""

\* ModelRouterService._estimate_tokens: int(cjk / 1.5 + other / 4)
_estimate_tokens(text) ==
    IF text.len = 0 THEN 0
    ELSE (8 * text.cjk + 3 * (text.len - text.cjk)) \div 12

\* UserModelConfigRepository.get_user_config_for_model: first matching row, or None
get_user_config_for_model(cfgs, user_id, model_id) ==
    LET hits == { c \in DOMAIN cfgs : cfgs[c].user_id = user_id /\ cfgs[c].model_id = model_id }
    IN  IF hits = {} THEN None
        ELSE CHOOSE c \in hits : \A d \in hits : c <= d

\* ModelRouterService._get_user_api_config: the exception raised ("" for none)
\* and the secret returned ("" for None)
_get_user_api_config(cfgs, user_id, model_id) ==
    LET c == get_user_config_for_model(cfgs, user_id, model_id)
        provider == Lower(SystemModels[model_id].model_provider)
    IN  IF c # None /\ cfgs[c].is_enabled
        THEN IF cfgs[c].api_key # ""
             THEN [exc |-> "", api_key |-> cfgs[c].api_key]
             ELSE IF cfgs[c].api_key_encrypted # ""
             THEN IF CanDecrypt(cfgs[c].api_key_encrypted)
                  THEN [exc |-> "", api_key |-> decrypt_api_key(cfgs[c].api_key_encrypted)]
                  ELSE [exc |-> "ModelConfigError", api_key |-> ""]
             ELSE [exc |-> "", api_key |-> ""]
        ELSE IF provider \in DOMAIN DEFAULT_API_KEYS
             THEN [exc |-> "", api_key |-> DEFAULT_API_KEYS[provider]]
             ELSE [exc |-> "", api_key |-> ""]

\* ApiCallLogRepository.get_model_api_calls(model_id, start_date, limit): the
\* newest `limit` rows of the model created at or after start_date
get_model_api_calls(log, model_id, start_date, limit) ==
    LET hits == SelectSeq(log, LAMBDA r : r.model_id = model_id /\ r.created_at >= start_date)
    IN  IF Len(hits) <= limit THEN hits
        ELSE SubSeq(hits, Len(hits) - limit + 1, Len(hits))

\* the calls of the user _check_rate_limit counts
UserCalls(log, t, user_id, model_id) ==
    LET recent_calls == get_model_api_calls(log, model_id, t - WindowSeconds, RecentCallsLimit)
    IN  SelectSeq(recent_calls, LAMBDA r : r.user_id = user_id)

\* faulty variant of _check_rate_limit: the call being checked is counted too
_check_rate_limit_counting_itself(log, t, user_id, model_id) ==
    Len(UserCalls(log, t, user_id, model_id)) + 1 >= SystemModels[model_id].rate_limit_per_minute

\* ModelRouterService._check_rate_limit: TRUE when the call is rejected
_check_rate_limit(log, t, user_id, model_id) ==
    LET user_calls == UserCalls(log, t, user_id, model_id)
        rate_limit == IF model_id \in ModelIds
                      THEN SystemModels[model_id].rate_limit_per_minute
                      ELSE DefaultRateLimit
    IN  Len(user_calls) >= rate_limit

\* ModelRouterService._validate_conversation_access: the exception raised, "" for none
_validate_conversation_access(cv, user_id, conversation_id) ==
    IF ~(conversation_id \in DOMAIN cv /\ cv[conversation_id].user_id = user_id)
    THEN "ConversationNotFoundError"
    ELSE IF cv[conversation_id].is_deleted THEN "ConversationNotFoundError"
    ELSE ""

----------------------------------------------------------------------------
(* Provider replies and the provider clients.  A reply is what the remote   *)
(* end does with one outbound request: an HTTP response (status, the        *)
(* assistant text of a JSON answer and its length, reported                 *)
(* usage.total_tokens or None, the lines of an event-stream answer), a      *)
(* timeout or a network error.  A text is a sequence of characters.         *)

\* lines of an event-stream body
LineDelta(content) == [data |-> TRUE, chunk |-> "json", content |-> content]
LineDone == [data |-> TRUE, chunk |-> "[DONE]", content |-> <<>>]
LineInvalidJson == [data |-> TRUE, chunk |-> "invalid", content |-> <<>>]
LineOther == [data |-> FALSE, chunk |-> "", content |-> <<>>]

AnswerText == [i \in 1..12 |-> "x"]

OkReplies ==
    { [kind |-> "http", status |-> 200, len |-> Len(AnswerText), usage |-> u,
       text |-> AnswerText, body |-> <<LineDelta(AnswerText), LineDone>>] : u \in {None, 1, 9} }

ErrReplies ==
    { [kind |-> "http", status |-> st, len |-> 0, usage |-> None, text |-> <<>>, body |-> <<>>] :
        st \in {400, 401, 429, 500} }
    \cup { [kind |-> k, status |-> 0, len |-> 0, usage |-> None, text |-> <<>>, body |-> <<>>] :
        k \in {"timeout", "network"} }

Replies == OkReplies \cup ErrReplies

\* the failure classes of section 4.4: server error, network error and timeout retry
Retryable(reply) ==
    \/ reply.kind \in {"timeout", "network"}
    \/ reply.kind = "http" /\ reply.status >= 500

NonRetryable(reply) == reply.kind = "http" /\ reply.status \in {400, 401, 429}

\* the class of one iteration's outcome: no request sent, a reply that is a
\* success, a retryable failure or a non-retryable failure
Classify(reply, called) ==
    CASE called = 0 -> "nocall"
      [] Retryable(reply) -> "retryable"
      [] NonRetryable(reply) -> "terminal"
      [] OTHER -> "ok"

NoData == [shape |-> "none", len |-> 0, usage |-> None, text |-> <<>>]

\* the loop of _handle_stream_response over response.aiter_lines(): the content
\* accumulated from the lines
RECURSIVE StreamContent(_)
StreamContent(lines) ==
    IF lines = <<>> THEN <<>>
    ELSE LET line == Head(lines)
         IN  IF ~line.data THEN StreamContent(Tail(lines))
             ELSE IF line.chunk = "[DONE]" THEN <<>>
             ELSE IF line.chunk = "json" THEN line.content \o StreamContent(Tail(lines))
             ELSE StreamContent(Tail(lines))

\* ModelRouterService._handle_stream_response: the unified envelope built from the deltas
_handle_stream_response(reply) ==
    LET content == StreamContent(reply.body)
    IN  [shape |-> "openai", len |-> Len(content), usage |-> Len(content) \div 4,
         text |-> content]

\* ModelRouterService._call_openai_via_client
_call_openai_via_client(stream, reply) ==
    IF reply.kind = "http" /\ reply.status = 200
    THEN [ok |-> TRUE, exc |-> "", called |-> 1,
          data |-> IF stream THEN _handle_stream_response(reply)
                   ELSE [shape |-> "openai", len |-> reply.len, usage |-> reply.usage,
                         text |-> reply.text]]
    ELSE [ok |-> FALSE, exc |-> "APIRequestError", called |-> 1, data |-> NoData]

\* deepseek_client.py is part of the build, so its import succeeds
DeepSeekClientImportable == TRUE

\* DeepSeekClient.chat_completion: _chat_completion, or awaiting the async
\* generator _stream_chat_completion, which raises before any request is sent
DeepSeekClient_chat_completion(stream, reply) ==
    IF stream
    THEN [ok |-> FALSE, exc |-> "TypeError", called |-> 0, data |-> NoData]
    ELSE IF reply.kind = "http" /\ reply.status = 200
    THEN [ok |-> TRUE, exc |-> "", called |-> 1,
          data |-> [shape |-> "openai", len |-> reply.len, usage |-> reply.usage,
                    text |-> reply.text]]
    ELSE [ok |-> FALSE, called |-> 1, data |-> NoData,
          exc |-> CASE reply.kind = "timeout" -> "TimeoutException"
                    [] reply.kind = "network" -> "NetworkError"
                    [] OTHER -> "Exception"]

\* ModelRouterService._call_deepseek_via_client
_call_deepseek_via_client(stream, reply) ==
    IF DeepSeekClientImportable
    THEN DeepSeekClient_chat_completion(stream, reply)
    ELSE _call_openai_via_client(stream, reply)

\* ModelRouterService._call_wenxin_api
_call_wenxin_api(stream, reply) ==
    IF reply.kind = "http" /\ reply.status = 200
    THEN [ok |-> TRUE, exc |-> "", called |-> 1,
          data |-> [shape |-> "wenxin", len |-> reply.len, usage |-> None,
                    text |-> reply.text]]
    ELSE [ok |-> FALSE, exc |-> "APIRequestError", called |-> 1, data |-> NoData]

\* body of the try block of one iteration of _call_model_api_with_retry
CallProvider(provider, stream, reply) ==
    LET provider_lower == Lower(provider)
    IN  CASE provider_lower = "openai" -> _call_openai_via_client(stream, reply)
          [] provider_lower = "deepseek" -> _call_deepseek_via_client(stream, reply)
          [] provider_lower \in {"baidu", "wenxin"} -> _call_wenxin_api(stream, reply)
          [] provider_lower = "anthropic" -> _call_openai_via_client(stream, reply)
          [] OTHER ->
               LET r == _call_openai_via_client(stream, reply)
               IN  IF r.ok THEN r ELSE [r EXCEPT !.exc = "ModelNotAvailableError"]

TypedErrors ==
    {"ModelNotAvailableError", "APIRequestError", "InsufficientQuotaError", "ModelConfigError"}

\* faulty variant of FinalError: the last exception is re-raised as it is
FinalError_reraise(exc) == exc

\* what the last iteration of _call_model_api_with_retry raises for exception exc
FinalError(exc) == IF exc \in TypedErrors THEN exc ELSE "APIRequestError"

\* faulty variant of RetriesAfter: a failed iteration raises at once
RetriesAfter_never(attempt, exc) == FALSE

\* faulty variant of RetriesAfter: the loop goes round once more
RetriesAfter_one_more(attempt, exc) == attempt <= max_retries - 1

\* whether a failed iteration sleeps and goes round again
RetriesAfter(attempt, exc) == attempt < max_retries - 1

RECURSIVE Pow2(_)
Pow2(n) == IF n = 0 THEN 1 ELSE 2 * Pow2(n - 1)

\* faulty variant of WaitTime: the delay does not grow
WaitTime_constant(attempt) == retry_delay

\* wait_time of a failed iteration
WaitTime(attempt) == retry_delay * Pow2(attempt)

\* str(response_data): the printed dictionary, not the assistant text
StrOfResponseData == <<"{", "}">>

\* ModelRouterService._extract_response_content
_extract_response_content(data, provider, stream) ==
    LET provider_lower == Lower(provider)
    IN  IF stream
        THEN IF data.shape = "openai" THEN data.text ELSE <<>>
        ELSE CASE provider_lower \in {"openai", "deepseek", "anthropic"} ->
                    IF data.shape = "openai" THEN data.text ELSE <<>>
               [] provider_lower \in {"baidu", "wenxin"} ->
                    IF data.shape = "wenxin" THEN data.text ELSE <<>>
               [] OTHER -> StrOfResponseData

\* ModelRouterService._calculate_tokens_used
_calculate_tokens_used(data, provider) ==
    LET provider_lower == Lower(provider)
    IN  CASE provider_lower \in {"openai", "deepseek", "anthropic"} ->
               IF data.usage # None THEN data.usage ELSE 0
          [] provider_lower \in {"baidu", "wenxin"} ->
               Len(_extract_response_content(data, provider, FALSE)) \div 3
          [] OTHER ->
               IF data.usage # None THEN data.usage ELSE 0

Max(a, b) == IF a >= b THEN a ELSE b

----------------------------------------------------------------------------
(* Storage operations.                                                      *)

\* the foreign keys api_call_logs declares: users, system_models, conversations
ForeignKeysHold(rec, cv) ==
    /\ rec.user_id \in Users
    /\ rec.model_id \in ModelIds
    /\ rec.conversation_id = None \/ rec.conversation_id \in DOMAIN cv

\* faulty variant of create_api_call: total_tokens holds the response tokens only
create_api_call_total_is_response(user_id, model_id, conversation_id, request_tokens, response_tokens, status_code, is_success, t) ==
    [user_id |-> user_id, model_id |-> model_id, conversation_id |-> conversation_id,
     request_tokens |-> request_tokens, response_tokens |-> response_tokens,
     total_tokens |-> response_tokens,
     status_code |-> status_code, is_success |-> is_success, created_at |-> t]

\* ApiCallLogRepository.create_api_call: the row built from the arguments
create_api_call(user_id, model_id, conversation_id, request_tokens, response_tokens, status_code, is_success, t) ==
    [user_id |-> user_id, model_id |-> model_id, conversation_id |-> conversation_id,
     request_tokens |-> request_tokens, response_tokens |-> response_tokens,
     total_tokens |-> request_tokens + response_tokens,
     status_code |-> status_code, is_success |-> is_success, created_at |-> t]

\* BaseRepository.create on api_call_logs: whether the commit goes through
InsertAccepted(rec, cv) == ~fkEnforced \/ ForeignKeysHold(rec, cv)

\* UserModelConfigRepository.update_last_used_time(config_id)
update_last_used_time(cfgs, config_id, t) ==
    IF config_id \in DOMAIN cfgs
    THEN [cfgs EXCEPT ![config_id].last_used_at = t]
    ELSE cfgs

\* ConversationService.save_message: appends one message row
save_message(msgs, conversation_id, role, tokens_used, model_id) ==
    Append(msgs, [conversation_id |-> conversation_id, role |-> role,
                  tokens_used |-> tokens_used, model_id |-> model_id])

TitleChars == 30    \* characters of the message a generated title keeps

\* title.startswith("New Conversation"), on the titles of the model's data
StartsWithNewConversation(title) == title \in {"New Conversation", "New Conversation plans"}

\* the test of _update_existing_conversation that lets a turn replace the title
IsDefaultTitle(title) == title = "新对话" \/ StartsWithNewConversation(title)

\* ModelRouterService._extract_conversation_title: the default title for an empty
\* message, else the message stripped and collapsed, cut to TitleChars characters
\* and "..." when it is longer (a title names its content, not the characters)
_extract_conversation_title(message) ==
    IF message.len = 0 THEN "新对话"
    ELSE IF message.collapsed > TitleChars THEN "message[:30]..."
    ELSE "message"

\* faulty variant of _update_existing_conversation: message_count advances by 1
_update_existing_conversation_plus_one(cv, msgs, conversation_id, user_message, total_tokens, model_id) ==
    LET m1 == save_message(msgs, conversation_id, "user", 0, None)
        m2 == save_message(m1, conversation_id, "assistant", total_tokens, model_id)
    IN  IF conversation_id \in DOMAIN cv
        THEN [convs |-> [cv EXCEPT ![conversation_id].message_count = @ + 1,
                                   ![conversation_id].total_tokens = @ + total_tokens],
              messages |-> m2, ok |-> TRUE]
        ELSE [convs |-> cv, messages |-> m2, ok |-> FALSE]

\* the query of _update_existing_conversation: the row with that id, if any
ReadConversation(cv, conversation_id) ==
    IF conversation_id \in DOMAIN cv
    THEN [found |-> TRUE, row |-> cv[conversation_id]]
    ELSE [found |-> FALSE]

\* faulty variant of CommitCounters: the counters are incremented in the
\* database (UPDATE ... SET message_count = message_count + 2)
CommitCounters_incremented_in_place(cv, conversation_id, read, user_message, total_tokens) ==
    IF read.found
    THEN [cv EXCEPT ![conversation_id].message_count = @ + 2,
                    ![conversation_id].total_tokens = @ + total_tokens,
                    ![conversation_id].title =
                        IF IsDefaultTitle(read.row.title)
                        THEN _extract_conversation_title(user_message) ELSE @]
    ELSE cv

\* the update of _update_existing_conversation: the counters, and the title if
\* it was a default one, are computed from the row that was read and committed;
\* the UPDATE carries the changed columns only
CommitCounters(cv, conversation_id, read, user_message, total_tokens) ==
    IF read.found
    THEN [cv EXCEPT ![conversation_id].message_count = read.row.message_count + 2,
                    ![conversation_id].total_tokens = read.row.total_tokens + total_tokens,
                    ![conversation_id].title =
                        IF IsDefaultTitle(read.row.title)
                        THEN _extract_conversation_title(user_message) ELSE @]
    ELSE cv

\* ModelRouterService._update_existing_conversation: the tables afterwards
_update_existing_conversation(cv, msgs, conversation_id, user_message, total_tokens, model_id) ==
    LET m1 == save_message(msgs, conversation_id, "user", 0, None)
        m2 == save_message(m1, conversation_id, "assistant", total_tokens, model_id)
        read == ReadConversation(cv, conversation_id)
    IN  [convs |-> CommitCounters(cv, conversation_id, read, user_message, total_tokens),
         messages |-> m2, ok |-> read.found]

\* ConversationRepository.soft_delete_conversation: the table afterwards
soft_delete_conversation(cv, conversation_id, user_id) ==
    IF /\ conversation_id \in DOMAIN cv
       /\ cv[conversation_id].user_id = user_id
       /\ ~cv[conversation_id].is_deleted
    THEN [cv EXCEPT ![conversation_id].is_deleted = TRUE]
    ELSE cv

\* the primary key the database gives the next conversation row
NextConversationId(cv) ==
    IF DOMAIN cv = {} THEN 1
    ELSE (CHOOSE i \in DOMAIN cv : \A j \in DOMAIN cv : j <= i) + 1

\* ModelRouterService._create_new_conversation: the tables afterwards and the new id
_create_new_conversation(cv, msgs, user_id, model_id, user_message, total_tokens) ==
    LET id == NextConversationId(cv)
        row == [conversation_id |-> id, user_id |-> user_id, model_id |-> model_id,
                title |-> _extract_conversation_title(user_message),
                message_count |-> 2, total_tokens |-> total_tokens, is_deleted |-> FALSE]
        cv1 == [i \in DOMAIN cv \cup {id} |-> IF i = id THEN row ELSE cv[i]]
        upd == _update_existing_conversation(cv1, msgs, id, user_message, total_tokens, model_id)
    IN  [convs |-> upd.convs, messages |-> upd.messages, conversation_id |-> id]

\* ApiCallLogRepository.record_chat_completion: no effect on the modelled tables
record_chat_completion(log) == log

\* ModelRouterService._post_chat_processing: the tables afterwards and new_conversation_id
_post_chat_processing(cv, msgs, user_id, model_id, conversation_id, user_message, total_tokens) ==
    IF conversation_id # None
    THEN LET upd == _update_existing_conversation(cv, msgs, conversation_id, user_message,
                                                  total_tokens, model_id)
         IN  [convs |-> upd.convs, messages |-> upd.messages, new_conversation_id |-> None]
    ELSE LET new == _create_new_conversation(cv, msgs, user_id, model_id, user_message,
                                             total_tokens)
         IN  [convs |-> new.convs, messages |-> new.messages,
              new_conversation_id |-> new.conversation_id]

\* ModelRouterService._post_chat_processing when the storage raises on the first
\* write of the turn: _update_existing_conversation and _create_new_conversation
\* roll back and report failure, which _post_chat_processing does not look at
_post_chat_processing_rolled_back(cv, msgs, user_id, model_id, conversation_id, user_message, total_tokens) ==
    [convs |-> cv, messages |-> msgs, new_conversation_id |-> None]

----------------------------------------------------------------------------
(* Processes.                                                               *)

NoResult == [kind |-> "none", exc |-> "", conversation_id |-> None, tokens_used |-> 0]

\* a worker that serves no configuration request
IdleCfg ==
    [phase |-> "idle", op |-> "", user_id |-> 0, queue |-> <<>>, is_enabled |-> FALSE,
     found |-> None]

IdleProc ==
    [pc |-> "idle", req |-> NoReq, model_id |-> None, api_key |-> "",
     attempt |-> 0, providerCalls |-> 0, slept |-> <<>>, classes |-> <<>>,
     written |-> <<>>, failedAt |-> "", admitted |-> FALSE, result |-> NoResult,
     original |-> "", steps |-> <<>>, pre |-> <<>>, read |-> [found |-> FALSE], tokens_used |-> 0,
     cfg |-> IdleCfg]

\* no pure function under study
NoPure == [fn |-> "none"]

Init ==
    /\ now = 0
    /\ fkEnforced \in BOOLEAN
    /\ callLog = <<>>
    /\ convs = InitConvs
    /\ messages = InitMessages
    /\ userConfigs = InitUserConfigs
    /\ proc = [p \in Procs |-> IdleProc]
    /\ nCalls = 0
    /\ limiterLog = <<>>
    /\ turnLog = <<>>
    /\ pure = NoPure

\* steps 1 to 6 of chat_completion, in the order of the code
StepsBeforeDispatch(req) ==
    <<"Validate", "ResolveModel", "ResolveCredential", "CheckRateLimit">>
    \o (IF req.conversation_id # None THEN <<"ValidateConversationOwnership">> ELSE <<>>)
    \o <<"BuildAdapterRequest">>

\* steps 7 to 12 of chat_completion, in the order of the code: the call returns,
\* the usage is extracted, _log_api_call writes the success record,
\* _post_chat_processing persists the turn, the result is returned
StepsAfterDispatch ==
    <<"Dispatch", "ExtractUsage", "AuditSuccess", "PersistConversation", "Return">>

\* the tables as a call finds them when it starts
Snapshot ==
    [convs |-> convs, messages |-> messages, userConfigs |-> userConfigs,
     logLen |-> Len(callLog)]

\* faulty variant of Fail: the except clause also stamps last_used_at of the
\* credential rows
Fail_stamping_last_used(p, pr, exc, step) ==
    /\ callLog' = callLog
    /\ proc' = [proc EXCEPT ![p] =
           [pr EXCEPT !.pc = "done", !.failedAt = step, !.original = exc,
                      !.result = [NoResult EXCEPT !.kind = "raised", !.exc = exc]]]
    /\ userConfigs' = [c \in DOMAIN userConfigs |->
                          [userConfigs[c] EXCEPT !.last_used_at = now]]
    /\ UNCHANGED <<convs, messages>>

\* the except clause of chat_completion: write the failure record, re-raise;
\* it writes to no other table
Fail(p, pr, exc, step) ==
    LET rec == create_api_call(pr.req.user_id,
                               IF pr.model_id = None THEN 0 ELSE pr.model_id,
                               pr.req.conversation_id,
                               _estimate_tokens(pr.req.message), 0, 500, FALSE, now)
    IN  /\ IF InsertAccepted(rec, convs)
           THEN /\ callLog' = Append(callLog, rec)
                /\ proc' = [proc EXCEPT ![p] =
                       [pr EXCEPT !.pc = "done", !.failedAt = step, !.original = exc,
                                  !.written = Append(@, rec),
                                  !.result = [NoResult EXCEPT !.kind = "raised", !.exc = exc]]]
           ELSE /\ callLog' = callLog
                /\ proc' = [proc EXCEPT ![p] =
                       [pr EXCEPT !.pc = "done", !.failedAt = step, !.original = exc,
                                  !.result = [NoResult EXCEPT !.kind = "raised",
                                                              !.exc = "IntegrityError"]]]
        /\ UNCHANGED <<convs, messages, userConfigs>>

\* chat_completion from its entry to the first provider call (steps 1 to 6)
Begin(p, req) ==
    /\ proc[p].pc \in {"idle", "done"}
    /\ nCalls' = nCalls + 1
    /\ LET pr0 == [IdleProc EXCEPT !.req = req, !.pre = Snapshot]
           invalid == _validate_user_input(req.message, req.model_name,
                                           req.temperature, req.max_tokens)
           m == get_by_name(req.model_name)
           pr1 == [pr0 EXCEPT !.model_id = m]
       IN  IF invalid # ""
           THEN Fail(p, pr0, invalid, "validate")
           ELSE IF m = None
           THEN Fail(p, pr0, "ModelNotAvailableError", "model")
           ELSE IF ~SystemModels[m].is_available
           THEN Fail(p, pr1, "ModelNotAvailableError", "model")
           ELSE LET cred == _get_user_api_config(userConfigs, req.user_id, m)
                    pr2 == [pr1 EXCEPT !.api_key = cred.api_key]
                IN  IF cred.exc # ""
                    THEN Fail(p, pr1, cred.exc, "credential")
                    ELSE IF cred.api_key = ""
                    THEN Fail(p, pr1, "ModelConfigError", "credential")
                    ELSE IF _check_rate_limit(callLog, now, req.user_id, m)
                    THEN Fail(p, pr2, "APIRequestError", "rate_limit")
                    ELSE LET pr3 == [pr2 EXCEPT !.admitted = TRUE]
                             denied == IF req.conversation_id # None
                                       THEN _validate_conversation_access(convs, req.user_id,
                                                                          req.conversation_id)
                                       ELSE ""
                         IN  IF denied # ""
                             THEN Fail(p, pr3, denied, "ownership")
                             ELSE /\ proc' = [proc EXCEPT ![p] =
                                         [pr3 EXCEPT !.pc = "dispatch",
                                                     !.steps = StepsBeforeDispatch(req)]]
                                  /\ callLog' = callLog
                                  /\ UNCHANGED <<convs, messages, userConfigs>>
    /\ limiterLog' =
          IF /\ _validate_user_input(req.message, req.model_name,
                                     req.temperature, req.max_tokens) = ""
             /\ get_by_name(req.model_name) # None
             /\ SystemModels[get_by_name(req.model_name)].is_available
             /\ LET cred == _get_user_api_config(userConfigs, req.user_id,
                                                 get_by_name(req.model_name))
                IN  cred.exc = "" /\ cred.api_key # ""
          THEN Append(limiterLog,
                      [user_id |-> req.user_id, model_id |-> get_by_name(req.model_name),
                       at |-> now,
                       logged |-> Len(UserCalls(callLog, now, req.user_id,
                                                get_by_name(req.model_name))),
                       admitted |-> ~_check_rate_limit(callLog, now, req.user_id,
                                                       get_by_name(req.model_name))])
          ELSE limiterLog
    /\ UNCHANGED <<now, fkEnforced, turnLog, pure>>

\* one iteration of _call_model_api_with_retry: the provider answers with reply.
\* A success runs steps 8 to 12 of chat_completion; a failure sleeps before the
\* next iteration or, in the last iteration, raises into the except clause.
\* storage_up tells whether the writes of _post_chat_processing go through.
AttemptStep(p, reply, storage_up) ==
    /\ proc[p].pc = "dispatch"
    /\ LET pr == proc[p]
           req == pr.req
           model == SystemModels[pr.model_id]
           r == CallProvider(model.model_provider, req.stream, reply)
           pr1 == [pr EXCEPT !.providerCalls = @ + r.called,
                             !.classes = Append(@, Classify(reply, r.called))]
       IN  IF r.ok
           THEN LET tokens_used == _calculate_tokens_used(r.data, model.model_provider)
                    prompt_tokens == _estimate_tokens(req.message)
                    completion_tokens == Max(0, tokens_used - prompt_tokens)
                    rec == create_api_call(req.user_id, model.model_id, req.conversation_id,
                                           prompt_tokens, completion_tokens, 200, TRUE, now)
                    post == IF storage_up
                            THEN _post_chat_processing(convs, messages, req.user_id,
                                                       model.model_id, req.conversation_id,
                                                       req.message, tokens_used)
                            ELSE _post_chat_processing_rolled_back(convs, messages, req.user_id,
                                                       model.model_id, req.conversation_id,
                                                       req.message, tokens_used)
                IN  IF InsertAccepted(rec, convs)
                    THEN /\ callLog' = record_chat_completion(Append(callLog, rec))
                         /\ userConfigs' = update_last_used_time(userConfigs, model.model_id, now)
                         /\ convs' = post.convs
                         /\ messages' = post.messages
                         /\ turnLog' = IF req.conversation_id # None
                                       THEN Append(turnLog,
                                                   [conversation_id |-> req.conversation_id,
                                                    tokens_used |-> tokens_used])
                                       ELSE turnLog
                         /\ proc' = [proc EXCEPT ![p] =
                                [pr1 EXCEPT !.pc = "done",
                                            !.steps = @ \o StepsAfterDispatch,
                                            !.written = Append(@, rec),
                                            !.result =
                                               [kind |-> "returned", exc |-> "",
                                                conversation_id |->
                                                    IF post.new_conversation_id # None
                                                    THEN post.new_conversation_id
                                                    ELSE IF req.conversation_id # None
                                                    THEN req.conversation_id ELSE 0,
                                                tokens_used |-> tokens_used]]]
                    ELSE /\ Fail(p, pr1, "IntegrityError", "audit")
                         /\ UNCHANGED turnLog
           ELSE IF RetriesAfter(pr.attempt, r.exc)
           THEN /\ proc' = [proc EXCEPT ![p] =
                       [pr1 EXCEPT !.pc = "sleep", !.slept = Append(@, WaitTime(pr.attempt))]]
                /\ UNCHANGED <<callLog, convs, messages, userConfigs, turnLog>>
           ELSE /\ Fail(p, pr1, FinalError(r.exc), "dispatch")
                /\ UNCHANGED turnLog
    /\ UNCHANGED <<now, fkEnforced, nCalls, limiterLog, pure>>

\* one iteration of the retry loop, the storage working
Attempt(p, reply) == AttemptStep(p, reply, TRUE)

\* the back-off sleep is over: next iteration of the retry loop
Wake(p) ==
    /\ proc[p].pc = "sleep"
    /\ proc' = [proc EXCEPT ![p].pc = "dispatch", ![p].attempt = @ + 1]
    /\ UNCHANGED <<now, fkEnforced, callLog, convs, messages, userConfigs, nCalls,
                   limiterLog, turnLog, pure>>

\* time passes
Tick ==
    /\ now < MaxTicks * TickStep
    /\ now' = now + TickStep
    /\ UNCHANGED <<fkEnforced, callLog, convs, messages, userConfigs, proc, nCalls,
                   limiterLog, turnLog, pure>>

----------------------------------------------------------------------------
(* Specification Spec: one process, every shape of request.                 *)

ValidReqs ==
    { [user_id |-> u, model_name |-> n, message |-> MsgHello, conversation_id |-> c,
       temperature |-> 7, max_tokens |-> 2000, stream |-> st] :
        u \in Users,
        n \in {SystemModels[i].model_name : i \in ModelIds} \cup {"no-such-model"},
        c \in {None, 1, 2, 3, 4, MissingConv},
        st \in BOOLEAN }

BaseReq ==
    [user_id |-> 1, model_name |-> "gpt-3.5-turbo", message |-> MsgHello,
     conversation_id |-> None, temperature |-> 7, max_tokens |-> 2000, stream |-> FALSE]

OddReqs ==
    { [BaseReq EXCEPT !.message = m, !.conversation_id = c] :
        m \in {MsgBlank, MsgEmpty, MsgLong, MsgCjk}, c \in {None, 1} }
    \cup { [BaseReq EXCEPT !.temperature = t] : t \in {-1, 0, 20, 21} }
    \cup { [BaseReq EXCEPT !.max_tokens = k] : k \in {0, 1, 8192, 8193} }
    \cup { [BaseReq EXCEPT !.model_name = ""] }

\* turns with a short and a long message on conversations of either user
TitleReqs ==
    { [BaseReq EXCEPT !.user_id = u, !.model_name = "deepseek-chat", !.message = m,
                      !.conversation_id = c] :
        u \in Users, m \in {MsgCjk, MsgSentence}, c \in {None, 1, 2, 4} }

WideReqs == ValidReqs \cup OddReqs \cup TitleReqs

StartCall ==
    /\ nCalls < MaxCalls
    /\ \E req \in WideReqs : Begin(1, req)

ProviderAnswers == \E reply \in Replies : Attempt(1, reply)

BackoffOver == Wake(1)

Next == StartCall \/ ProviderAnswers \/ BackoffOver

Spec == Init /\ [][Next]_vars

----------------------------------------------------------------------------
(* Specification SpecFault: Spec, and the storage may fail while the turn   *)
(* of a successful call is persisted.                                       *)

ProviderAnswersStorageDown == \E reply \in OkReplies : AttemptStep(1, reply, FALSE)

NextFault == StartCall \/ ProviderAnswers \/ ProviderAnswersStorageDown \/ BackoffOver

SpecFault == Init /\ [][NextFault]_vars

----------------------------------------------------------------------------
(* Specification SpecConc: several workers serve turns of one user on his   *)
(* conversations against the same database, while the user may delete a     *)
(* conversation.  A step of a worker runs to its next suspension point (the *)
(* provider call) or, inside _update_existing_conversation, from the query  *)
(* of the conversation row to the commit that follows it: nothing in the    *)
(* code or the schema keeps another worker's commit out of that gap.        *)

MaxConcCalls == 2    \* calls started in a run of SpecConc

ConcReqs ==
    { [BaseReq EXCEPT !.model_name = "deepseek-chat", !.conversation_id = c] : c \in {1, 4} }

ConcReplies == { r \in OkReplies : r.usage # None }

\* steps 7 to 10 of chat_completion and _update_existing_conversation down to
\* its query: the provider has answered 200, the success record is written,
\* last_used_at stamped, the two messages saved and the conversation row read
AnswerAndRead(p, reply) ==
    /\ proc[p].pc = "dispatch"
    /\ proc[p].req.conversation_id # None
    /\ LET pr == proc[p]
           req == pr.req
           model == SystemModels[pr.model_id]
           r == CallProvider(model.model_provider, req.stream, reply)
           tokens_used == _calculate_tokens_used(r.data, model.model_provider)
           prompt_tokens == _estimate_tokens(req.message)
           completion_tokens == Max(0, tokens_used - prompt_tokens)
           rec == create_api_call(req.user_id, model.model_id, req.conversation_id,
                                  prompt_tokens, completion_tokens, 200, TRUE, now)
           m1 == save_message(messages, req.conversation_id, "user", 0, None)
           m2 == save_message(m1, req.conversation_id, "assistant", tokens_used, model.model_id)
       IN  /\ r.ok
           /\ InsertAccepted(rec, convs)
           /\ callLog' = Append(callLog, rec)
           /\ userConfigs' = update_last_used_time(userConfigs, model.model_id, now)
           /\ messages' = m2
           /\ proc' = [proc EXCEPT ![p] =
                  [pr EXCEPT !.pc = "persist",
                             !.providerCalls = @ + r.called,
                             !.classes = Append(@, Classify(reply, r.called)),
                             !.written = Append(@, rec),
                             !.read = ReadConversation(convs, req.conversation_id),
                             !.tokens_used = tokens_used]]
    /\ UNCHANGED <<now, fkEnforced, convs, nCalls, limiterLog, turnLog, pure>>

\* the rest of _update_existing_conversation and of chat_completion: the
\* counters computed from the row read are committed and the call returns
CommitAndReturn(p) ==
    /\ proc[p].pc = "persist"
    /\ LET pr == proc[p]
           req == pr.req
       IN  /\ convs' = CommitCounters(convs, req.conversation_id, pr.read, req.message,
                                      pr.tokens_used)
           /\ callLog' = record_chat_completion(callLog)
           /\ turnLog' = Append(turnLog, [conversation_id |-> req.conversation_id,
                                          tokens_used |-> pr.tokens_used])
           /\ proc' = [proc EXCEPT ![p] =
                  [pr EXCEPT !.pc = "done",
                             !.steps = @ \o StepsAfterDispatch,
                             !.result = [kind |-> "returned", exc |-> "",
                                         conversation_id |-> req.conversation_id,
                                         tokens_used |-> pr.tokens_used]]]
    /\ UNCHANGED <<now, fkEnforced, messages, userConfigs, nCalls, limiterLog, pure>>

\* ConversationService.delete_conversation(conversation_id, user_id)
delete_conversation(conversation_id, user_id) ==
    /\ convs' = soft_delete_conversation(convs, conversation_id, user_id)
    /\ convs' # convs
    /\ UNCHANGED <<now, fkEnforced, callLog, messages, userConfigs, proc, nCalls,
                   limiterLog, turnLog, pure>>

ConcStartCall ==
    /\ nCalls < MaxConcCalls
    /\ \E p \in Procs, req \in ConcReqs : Begin(p, req)

ConcProviderAnswers == \E p \in Procs, reply \in ConcReplies : AnswerAndRead(p, reply)

ConcCommit == \E p \in Procs : CommitAndReturn(p)

ConcDelete == \E c \in {1, 4} : delete_conversation(c, 1)

NextConc == ConcStartCall \/ ConcProviderAnswers \/ ConcCommit \/ ConcDelete

SpecConc == Init /\ [][NextConc]_vars

----------------------------------------------------------------------------
(* Specification SpecCfg: the workers serve the configuration requests of   *)
(* the users.  Each request looks the row of (user_id, model_id) up and     *)
(* then updates it or inserts one; the look-up and the write are two        *)
(* accesses to the database, and the table has no unique key on the pair.   *)

MaxCfgOps == 3    \* configuration requests started in a run of SpecCfg

CfgModels == {1, 3}    \* user 1 has a row for model 3 and none for model 1

\* BaseRepository.create on user_model_configs: a row with the next config_id
create(cfgs, user_id, model_id, is_enabled) ==
    Append(cfgs, [config_id |-> Len(cfgs) + 1, user_id |-> user_id, model_id |-> model_id,
                  is_enabled |-> is_enabled, api_key |-> "", api_key_encrypted |-> "",
                  last_used_at |-> None])

\* what enable_user_model, disable_user_model and update_user_model_config do
\* after their look-up: the row found is updated; without one, enabling and
\* updating insert a row and disabling does nothing
WriteConfig(cfgs, op, user_id, model_id, is_enabled, found) ==
    IF found # None
    THEN [cfgs EXCEPT ![found].is_enabled = is_enabled]
    ELSE IF op = "disable_user_model"
    THEN cfgs
    ELSE create(cfgs, user_id, model_id, is_enabled)

\* the repository method bulk_update_models calls for each model
BulkStep(is_enabled) == IF is_enabled THEN "enable_user_model" ELSE "disable_user_model"

\* a request arrives at worker p
CfgBegin(p, op, user_id, model_ids, is_enabled) ==
    /\ proc[p].pc = "idle"
    /\ proc[p].cfg.phase = "idle"
    /\ nCalls < MaxCfgOps
    /\ nCalls' = nCalls + 1
    /\ proc' = [proc EXCEPT ![p].cfg =
           [phase |-> "lookup", op |-> op, user_id |-> user_id, queue |-> model_ids,
            is_enabled |-> is_enabled, found |-> None]]
    /\ UNCHANGED <<now, fkEnforced, callLog, convs, messages, userConfigs, limiterLog,
                   turnLog, pure>>

\* ModelRouterService.enable_user_model(user_id, model_id)
enable_user_model ==
    \E p \in Procs, m \in CfgModels : CfgBegin(p, "enable_user_model", 1, <<m>>, TRUE)

\* ModelRouterService.disable_user_model(user_id, model_id)
disable_user_model ==
    \E p \in Procs, m \in CfgModels : CfgBegin(p, "disable_user_model", 1, <<m>>, FALSE)

\* ModelRouterService.update_user_model_config(user_id, {model_id, is_enabled})
update_user_model_config ==
    \E p \in Procs, m \in CfgModels, e \in BOOLEAN :
        /\ m \in ModelIds
        /\ CfgBegin(p, "update_user_model_config", 1, <<m>>, e)

\* ModelRouterService.bulk_update_models(user_id, model_ids, is_enabled)
bulk_update_models ==
    \E p \in Procs, e \in BOOLEAN : CfgBegin(p, BulkStep(e), 1, <<1, 3>>, e)

\* the look-up of the request worker p serves
CfgLookup ==
    \E p \in Procs :
        /\ proc[p].cfg.phase = "lookup"
        /\ proc' = [proc EXCEPT
               ![p].cfg.found = get_user_config_for_model(userConfigs, proc[p].cfg.user_id,
                                                          Head(proc[p].cfg.queue)),
               ![p].cfg.phase = "write"]
        /\ UNCHANGED <<now, fkEnforced, callLog, convs, messages, userConfigs, nCalls,
                       limiterLog, turnLog, pure>>

\* the write that follows the look-up, and the return or the next model
CfgWrite ==
    \E p \in Procs :
        LET cfg == proc[p].cfg
        IN  /\ cfg.phase = "write"
            /\ userConfigs' = WriteConfig(userConfigs, cfg.op, cfg.user_id, Head(cfg.queue),
                                          cfg.is_enabled, cfg.found)
            /\ proc' = [proc EXCEPT ![p].cfg =
                   IF Len(cfg.queue) > 1
                   THEN [cfg EXCEPT !.phase = "lookup", !.queue = Tail(@), !.found = None]
                   ELSE IdleCfg]
            /\ UNCHANGED <<now, fkEnforced, callLog, convs, messages, nCalls, limiterLog,
                           turnLog, pure>>

NextCfg ==
    \/ enable_user_model
    \/ disable_user_model
    \/ update_user_model_config
    \/ bulk_update_models
    \/ CfgLookup
    \/ CfgWrite

SpecCfg == Init /\ [][NextCfg]_vars

----------------------------------------------------------------------------
(* Specification SpecSeq: one process, successive calls for one model with  *)
(* a per-minute limit of 1, while the clock advances.                       *)

SeqReqs ==
    { [user_id |-> u, model_name |-> "deepseek-chat", message |-> MsgHello,
       conversation_id |-> c, temperature |-> 7, max_tokens |-> 2000, stream |-> FALSE] :
        u \in Users, c \in {None, 1, MissingConv} }

SeqReplies ==
    { r \in Replies : \/ r.status = 200 /\ r.usage # None
                      \/ r.status = 500 }

SeqStartCall ==
    /\ nCalls < MaxSeqCalls
    /\ \E req \in SeqReqs : Begin(1, req)

SeqProviderAnswers == \E reply \in SeqReplies : Attempt(1, reply)

NextSeq == SeqStartCall \/ SeqProviderAnswers \/ BackoffOver \/ Tick

SpecSeq == Init /\ [][NextSeq]_vars

----------------------------------------------------------------------------
(* Specification SpecPure: the pure methods of the service, each applied to *)
(* an argument drawn at the start.                                          *)

\* contents of two deltas: four ASCII characters, three CJK characters (each
\* character written by its code point)
DeltaAscii == <<"a", "b", "c", "d">>
DeltaCjk == <<"U+4E2D", "U+6587", "U+5B57">>

\* '\u4e00' <= c <= '\u9fff'
IsCjk(c) == c \in {"U+4E2D", "U+6587", "U+5B57"}

\* a text as _estimate_tokens reads it: its length and its CJK characters
Describe(text) ==
    [len |-> Len(text), stripped |-> Len(text), collapsed |-> Len(text),
     cjk |-> Cardinality({ i \in DOMAIN text : IsCjk(text[i]) })]

StreamLines == {LineDelta(DeltaAscii), LineDelta(DeltaCjk), LineDone, LineInvalidJson, LineOther}

Bodies == UNION { [1..n -> StreamLines] : n \in 0..MaxLines }

Providers == { SystemModels[i].model_provider : i \in ModelIds }

\* a model name is a sequence of words joined by "-"
Words ==
    {"deepseek", "DeepSeek", "coder", "chat", "gpt", "4", "3.5", "turbo", "ernie", "bot",
     "claude", "3", "sonnet", "llama", "8b", "x"}

Names == UNION { [1..n -> Words] : n \in 0..MaxNameLen }

\* str.lower() on a model name
LowerName(name) == [i \in DOMAIN name |-> IF name[i] = "DeepSeek" THEN "deepseek" ELSE name[i]]

\* keyword in name: the keyword's words occur in the name, adjacent and in order
Contains(name, keyword) ==
    \E i \in 1..(Len(name) - Len(keyword) + 1) :
        \A j \in 1..Len(keyword) : name[i + j - 1] = keyword[j]

\* faulty variant of _get_model_identifier: the default is "gpt-4-turbo"
_get_model_identifier_default_gpt4_turbo(model_name, provider) ==
    LET model_name_lower == LowerName(model_name)
    IN  IF Contains(model_name_lower, <<"deepseek">>)
        THEN IF Contains(model_name_lower, <<"coder">>)
             THEN <<"deepseek", "coder">>
             ELSE <<"deepseek", "chat">>
        ELSE IF Contains(model_name_lower, <<"gpt", "4">>) THEN <<"gpt", "4">>
        ELSE IF Contains(model_name_lower, <<"ernie">>) THEN <<"ernie", "bot">>
        ELSE IF Contains(model_name_lower, <<"claude">>) THEN <<"claude", "3", "sonnet">>
        ELSE IF Contains(model_name_lower, <<"llama">>) THEN <<"llama", "3", "8b">>
        ELSE IF model_name # <<>> THEN model_name ELSE <<"gpt", "4", "turbo">>

\* ModelRouterService._get_model_identifier
_get_model_identifier(model_name, provider) ==
    LET model_name_lower == LowerName(model_name)
    IN  IF Contains(model_name_lower, <<"deepseek">>)
        THEN IF Contains(model_name_lower, <<"coder">>)
             THEN <<"deepseek", "coder">>
             ELSE <<"deepseek", "chat">>
        ELSE IF Contains(model_name_lower, <<"gpt", "4">>) THEN <<"gpt", "4">>
        ELSE IF Contains(model_name_lower, <<"ernie">>) THEN <<"ernie", "bot">>
        ELSE IF Contains(model_name_lower, <<"claude">>) THEN <<"claude", "3", "sonnet">>
        ELSE IF Contains(model_name_lower, <<"llama">>) THEN <<"llama", "3", "8b">>
        ELSE IF model_name # <<>> THEN model_name ELSE <<"gpt", "3.5", "turbo">>

NoOut == [ready |-> FALSE]

\* a dispatch with stream=True answered 200 with an event-stream body (or, by a
\* provider that was not asked to stream, with a JSON document)
StreamInputs ==
    { [fn |-> "stream", out |-> NoOut,
       arg |-> [provider |-> pv,
                reply |-> [kind |-> "http", status |-> 200, len |-> Len(DeltaAscii),
                           usage |-> None, text |-> DeltaAscii, body |-> b]]] :
        pv \in Providers, b \in Bodies }

\* a dispatch answered 200 with a text, with or without a usage object
TokenInputs ==
    { [fn |-> "tokens", out |-> NoOut,
       arg |-> [provider |-> pv, stream |-> st,
                reply |-> [kind |-> "http", status |-> 200, len |-> Len(t), usage |-> u,
                           text |-> t, body |-> <<LineDelta(t), LineDone>>]]] :
        pv \in Providers, st \in BOOLEAN, u \in {None, 5},
        t \in {DeltaAscii, DeltaCjk, DeltaAscii \o DeltaCjk \o DeltaAscii} }

IdentifierInputs ==
    { [fn |-> "identifier", out |-> NoOut, arg |-> [model_name |-> n]] : n \in Names }

\* the instants of a rate-limit check and of the records it finds: the user's
\* own records, then the other users' records, all within the window
CheckAt == 59
OwnAt == 10
OthersAt == 20

MaxOwnRecords == 3    \* records of the user in the window, in a run of SpecPure

\* the call log holding `own` records of user 1 and then `others` records of
\* user 2, all for model_id
LogOf(model_id, own, others) ==
    [i \in 1..(own + others) |->
        IF i <= own
        THEN create_api_call(1, model_id, None, 2, 0, 200, TRUE, OwnAt)
        ELSE create_api_call(2, model_id, None, 2, 0, 200, TRUE, OthersAt)]

\* two call logs that agree on the user's own records and differ in the other
\* users' records: othersA of them in one, othersB in the other
LimiterInputs ==
    { [fn |-> "limiter", out |-> NoOut,
       arg |-> [model_id |-> m, own |-> k, othersA |-> a, othersB |-> b]] :
        m \in {1, 3}, k \in 0..MaxOwnRecords,
        a \in {0, 1}, b \in {0, 1, RecentCallsLimit - 1, RecentCallsLimit} }

InitPure ==
    /\ now = 0
    /\ fkEnforced = FALSE
    /\ callLog = <<>>
    /\ convs = InitConvs
    /\ messages = InitMessages
    /\ userConfigs = InitUserConfigs
    /\ proc = [p \in Procs |-> IdleProc]
    /\ nCalls = 0
    /\ limiterLog = <<>>
    /\ turnLog = <<>>
    /\ pure \in StreamInputs \cup TokenInputs \cup IdentifierInputs \cup LimiterInputs

\* steps 7 and 8 of chat_completion on a streamed answer: dispatch, then
\* _extract_response_content
ApplyStream ==
    /\ pure.fn = "stream" /\ ~pure.out.ready
    /\ LET r == CallProvider(pure.arg.provider, TRUE, pure.arg.reply)
       IN  pure' = [pure EXCEPT !.out =
                       [ready |-> TRUE, ok |-> r.ok, shape |-> r.data.shape,
                        usage |-> r.data.usage,
                        text |-> IF r.ok
                                 THEN _extract_response_content(r.data, pure.arg.provider, TRUE)
                                 ELSE <<>>]]
    /\ UNCHANGED <<now, fkEnforced, callLog, convs, messages, userConfigs, proc, nCalls,
                   limiterLog, turnLog>>

\* steps 7 and 8 of chat_completion: dispatch, then _calculate_tokens_used
ApplyTokens ==
    /\ pure.fn = "tokens" /\ ~pure.out.ready
    /\ LET r == CallProvider(pure.arg.provider, pure.arg.stream, pure.arg.reply)
       IN  pure' = [pure EXCEPT !.out =
                       [ready |-> TRUE, ok |-> r.ok,
                        tokens_used |-> IF r.ok
                                        THEN _calculate_tokens_used(r.data, pure.arg.provider)
                                        ELSE 0]]
    /\ UNCHANGED <<now, fkEnforced, callLog, convs, messages, userConfigs, proc, nCalls,
                   limiterLog, turnLog>>

\* _get_model_identifier applied once and twice
ApplyIdentifier ==
    /\ pure.fn = "identifier" /\ ~pure.out.ready
    /\ LET once == _get_model_identifier(pure.arg.model_name, "")
       IN  pure' = [pure EXCEPT !.out =
                       [ready |-> TRUE, once |-> once,
                        twice |-> _get_model_identifier(once, "")]]
    /\ UNCHANGED <<now, fkEnforced, callLog, convs, messages, userConfigs, proc, nCalls,
                   limiterLog, turnLog>>

\* _check_rate_limit for user 1, on each of the two call logs
ApplyLimiter ==
    /\ pure.fn = "limiter" /\ ~pure.out.ready
    /\ LET a == pure.arg
       IN  pure' = [pure EXCEPT !.out =
                       [ready |-> TRUE,
                        rejectedA |-> _check_rate_limit(LogOf(a.model_id, a.own, a.othersA),
                                                        CheckAt, 1, a.model_id),
                        rejectedB |-> _check_rate_limit(LogOf(a.model_id, a.own, a.othersB),
                                                        CheckAt, 1, a.model_id)]]
    /\ UNCHANGED <<now, fkEnforced, callLog, convs, messages, userConfigs, proc, nCalls,
                   limiterLog, turnLog>>

NextPure == ApplyStream \/ ApplyTokens \/ ApplyIdentifier \/ ApplyLimiter

SpecPure == InitPure /\ [][NextPure]_vars

----------------------------------------------------------------------------
(* Properties.                                                              *)

\* the calls that have finished
Done(p) == proc[p].pc = "done"

Raised(p, exc) == proc[p].result.kind = "raised" /\ proc[p].result.exc = exc

\* the rows of table messages that belong to conversation c, in order
MessagesOf(c) == SelectSeq(messages, LAMBDA m : m.conversation_id = c)

InitMessagesOf(c) == SelectSeq(InitMessages, LAMBDA m : m.conversation_id = c)

\* the returned turns of conversation c, in order
TurnsOf(c) == SelectSeq(turnLog, LAMBDA e : e.conversation_id = c)

RECURSIVE SumTokens(_)
SumTokens(turns) ==
    IF turns = <<>> THEN 0 ELSE Head(turns).tokens_used + SumTokens(Tail(turns))

RecognizedProviders == {"openai", "deepseek", "baidu", "wenxin", "anthropic"}

\* C1: a call that reached credential resolution or a later step has appended
\* exactly one record to the call log when it returns or raises: a success
\* record with status 200 when it returns, a failure record with status 500
\* when it raises.
C1_OneCallRecordPerCall ==
    \A p \in Procs :
        (Done(p) /\ proc[p].failedAt \notin {"validate", "model"}) =>
            /\ Len(proc[p].written) = 1
            /\ proc[p].result.kind = "returned" =>
                   proc[p].written[1].is_success /\ proc[p].written[1].status_code = 200
            /\ proc[p].result.kind = "raised" =>
                   ~proc[p].written[1].is_success /\ proc[p].written[1].status_code = 500

\* C2: after K returned turns on a conversation that existed at the start with
\* message_count m and total_tokens t, its message_count is m + 2K, its
\* total_tokens is t plus the sum of the K turns' totals, and each turn has
\* appended the user message and then the assistant message.
C2_TurnsAdvanceInPairs ==
    \A c \in DOMAIN InitConvs :
        LET turns == TurnsOf(c)
            K == Len(turns)
            n0 == Len(InitMessagesOf(c))
            ms == MessagesOf(c)
        IN  /\ convs[c].message_count = InitConvs[c].message_count + 2 * K
            /\ convs[c].total_tokens = InitConvs[c].total_tokens + SumTokens(turns)
            /\ Len(ms) = n0 + 2 * K
            /\ \A i \in 1..n0 : ms[i] = InitMessagesOf(c)[i]
            /\ \A k \in 1..K :
                   /\ ms[n0 + 2 * k - 1].role = "user"
                   /\ ms[n0 + 2 * k].role = "assistant"
                   /\ ms[n0 + 2 * k].tokens_used = turns[k].tokens_used

\* C2, reached: two turns with different totals have returned on conversation 1.
C2_TwoTurnsReturned ==
    /\ Len(TurnsOf(1)) = 2
    /\ TurnsOf(1)[1].tokens_used # TurnsOf(1)[2].tokens_used
    /\ convs[1].message_count = InitConvs[1].message_count + 4

\* C3: a call without conversation_id that returns has created exactly one
\* conversation, owned by the user for the model used, with message_count 2,
\* total_tokens equal to the turn's total and two messages, and its id is the
\* conversation_id of the result.
C3_NewConversationCountsOneTurn ==
    \A p \in Procs :
        (Done(p) /\ proc[p].result.kind = "returned" /\ proc[p].req.conversation_id = None) =>
            LET id == proc[p].result.conversation_id
            IN  /\ id \in DOMAIN convs
                /\ id \notin DOMAIN InitConvs
                /\ convs[id].user_id = proc[p].req.user_id
                /\ convs[id].model_id = proc[p].model_id
                /\ convs[id].message_count = 2
                /\ convs[id].total_tokens = proc[p].result.tokens_used
                /\ Len(MessagesOf(id)) = 2

C5_TerminalRepliesAreNotRetried ==
    \A p \in Procs :
        \A i \in DOMAIN proc[p].classes :
            proc[p].classes[i] = "terminal" =>
                /\ i = Len(proc[p].classes)
                /\ Len(proc[p].slept) = i - 1
                /\ Done(p)
                /\ Raised(p, "APIRequestError")

\* C6: whatever the provider name and the provider's outcomes, one dispatch
\* issues at most max_retries outbound provider requests.
C6_AtMostMaxRetriesProviderCalls ==
    \A p \in Procs : proc[p].providerCalls <= max_retries

\* C6, reached: a dispatch for an unrecognized provider name has issued
\* max_retries requests and failed.
C6_UnrecognizedProviderExhausted ==
    /\ Done(1)
    /\ proc[1].providerCalls = max_retries
    /\ Lower(SystemModels[proc[1].model_id].model_provider) \notin RecognizedProviders
    /\ proc[1].result.kind = "raised"

\* C7: with per-minute limit L of the model, a call that follows at least L
\* calls of the same user for the same model made less than 60 seconds before
\* it is rejected by the rate limiter; a call whose earlier calls by that user
\* for that model are all more than 60 seconds old is admitted.
C7_LimiterRejectsCallLPlusOne ==
    \A i \in DOMAIN limiterLog :
        LET e == limiterLog[i]
            same == { j \in 1..(i - 1) : /\ limiterLog[j].user_id = e.user_id
                                         /\ limiterLog[j].model_id = e.model_id }
            within == { j \in same : e.at - limiterLog[j].at < WindowSeconds }
            L == SystemModels[e.model_id].rate_limit_per_minute
        IN  /\ Cardinality(within) >= L => ~e.admitted
            /\ (\A j \in same : e.at - limiterLog[j].at > WindowSeconds) => e.admitted

\* the secret section 4.2 resolves for (user, model): the secret of the enabled
\* per-user credential if there is one, else the provider's system default
ResolvedSecret(user_id, model_id) ==
    LET rows == { c \in DOMAIN InitUserConfigs :
                      /\ InitUserConfigs[c].user_id = user_id
                      /\ InitUserConfigs[c].model_id = model_id
                      /\ InitUserConfigs[c].is_enabled }
        provider == Lower(SystemModels[model_id].model_provider)
    IN  IF rows # {}
        THEN LET row == InitUserConfigs[CHOOSE c \in rows : TRUE]
             IN  IF row.api_key # "" THEN row.api_key
                 ELSE IF row.api_key_encrypted = "" THEN ""
                 ELSE IF CanDecrypt(row.api_key_encrypted)
                      THEN decrypt_api_key(row.api_key_encrypted)
                      ELSE "undecryptable"
        ELSE IF provider \in DOMAIN DEFAULT_API_KEYS THEN DEFAULT_API_KEYS[provider] ELSE ""

\* C8: a call that reaches credential resolution uses the secret of the
\* enabled per-user credential, else the provider's system default; when the
\* stored secret cannot be decrypted or no non-empty secret results, the call
\* raises ModelConfigError without any provider call.
C8_CredentialResolutionOrder ==
    \A p \in Procs :
        (Done(p) /\ proc[p].failedAt \notin {"validate", "model"}) =>
            LET secret == ResolvedSecret(proc[p].req.user_id, proc[p].model_id)
            IN  IF secret \in {"", "undecryptable"}
                THEN Raised(p, "ModelConfigError") /\ proc[p].providerCalls = 0
                ELSE proc[p].api_key = secret

\* C9: a call for a model name that is not in the catalog, or whose
\* availability flag is false, raises ModelNotAvailableError having resolved no
\* credential, passed no rate limiter and called no provider.
C9_UnknownModelRaisesModelNotAvailable ==
    \A p \in Procs :
        ( /\ Done(p)
          /\ _validate_user_input(proc[p].req.message, proc[p].req.model_name,
                                  proc[p].req.temperature, proc[p].req.max_tokens) = ""
          /\ \/ get_by_name(proc[p].req.model_name) = None
             \/ ~SystemModels[get_by_name(proc[p].req.model_name)].is_available ) =>
            /\ Raised(p, "ModelNotAvailableError")
            /\ proc[p].api_key = ""
            /\ ~proc[p].admitted
            /\ proc[p].providerCalls = 0

\* C10: the error types of the four failure classes are pairwise different:
\* a rejection by the rate limiter carries neither the type of an upstream
\* failure (APIRequestError) nor that of a missing configuration
\* (ModelConfigError) nor that of a malformed request (ValueError).
C10_FailureClassesHaveDistinctTypes ==
    \A p \in Procs :
        (Done(p) /\ proc[p].result.kind = "raised") =>
            /\ proc[p].failedAt = "dispatch" => proc[p].result.exc = "APIRequestError"
            /\ proc[p].failedAt = "rate_limit" =>
                   proc[p].result.exc \notin {"APIRequestError", "ModelConfigError", "ValueError"}

\* C11: the audit write never raises into the orchestration: a call that
\* raises raises its original error, not the error of the call-log insert, and
\* a call whose provider answered successfully returns its result.
C11_AuditWriteNeverRaises ==
    \A p \in Procs :
        Done(p) =>
            /\ proc[p].result.kind = "raised" => proc[p].result.exc = proc[p].original
            /\ ( /\ proc[p].classes # <<>>
                 /\ proc[p].classes[Len(proc[p].classes)] = "ok" ) =>
                   proc[p].result.kind = "returned"

\* a request section 5 calls malformed: empty or whitespace-only message,
\* temperature outside [0, 2], max_tokens outside [1, 8192], empty model name
Malformed(req) ==
    \/ req.message.stripped = 0
    \/ req.temperature < 0 \/ req.temperature > MaxTemperature
    \/ req.max_tokens < 1 \/ req.max_tokens > MaxMaxTokens
    \/ req.model_name = ""

\* C12: a call with a malformed request fails at validation: no model has been
\* looked up, no credential resolved, no rate limiter passed and no provider
\* called when it raises.
C12_MalformedRequestFailsFirst ==
    \A p \in Procs :
        (proc[p].pc # "idle" /\ Malformed(proc[p].req)) =>
            /\ Done(p)
            /\ proc[p].result.kind = "raised"
            /\ proc[p].failedAt = "validate"
            /\ proc[p].model_id = None
            /\ proc[p].api_key = ""
            /\ ~proc[p].admitted
            /\ proc[p].providerCalls = 0

\* C12, reached: a whitespace-only message for an available, configured model
\* has been rejected.
C12_BlankMessageRejected ==
    /\ Done(1)
    /\ proc[1].req.message = MsgBlank
    /\ get_by_name(proc[1].req.model_name) # None
    /\ proc[1].failedAt = "validate"
    /\ proc[1].providerCalls = 0

\* the order of steps section 4.1 gives for a successful run
SpecifiedOrder(req) ==
    <<"Validate", "ResolveModel", "ResolveCredential", "CheckRateLimit">>
    \o (IF req.conversation_id # None THEN <<"ValidateConversationOwnership">> ELSE <<>>)
    \o <<"BuildAdapterRequest", "Dispatch", "ExtractUsage", "PersistConversation",
         "AuditSuccess", "Return">>

\* C13: a run that returns has gone through the steps in the order Validate,
\* ResolveModel, ResolveCredential, CheckRateLimit, ValidateConversationOwnership
\* (when a conversation_id is given), BuildAdapterRequest, Dispatch,
\* ExtractUsage, PersistConversation, AuditSuccess, Return: the success record
\* is written after the turn is persisted.
C13_StepsInSpecifiedOrder ==
    \A p \in Procs :
        (Done(p) /\ proc[p].result.kind = "returned") =>
            proc[p].steps = SpecifiedOrder(proc[p].req)

\* C14: every record of the call log, of a successful or of a failed call, has
\* total_tokens = request_tokens + response_tokens.
C14_TotalIsRequestPlusResponse ==
    \A i \in DOMAIN callLog :
        callLog[i].total_tokens = callLog[i].request_tokens + callLog[i].response_tokens

\* C14, reached: the call log holds a failure record and a success record with
\* request and response tokens.
C14_BothKindsOfRecord ==
    /\ \E i \in DOMAIN callLog : ~callLog[i].is_success /\ callLog[i].request_tokens > 0
    /\ \E i \in DOMAIN callLog : /\ callLog[i].is_success
                                 /\ callLog[i].request_tokens > 0
                                 /\ callLog[i].response_tokens > 0

RECURSIVE SumSeq(_)
SumSeq(s) == IF s = <<>> THEN 0 ELSE Head(s) + SumSeq(Tail(s))

\* C16: the k-th sleep of a dispatch (k from 0) lasts retry_delay * 2^k; a
\* failed attempt k < max_retries - 1 is followed by a sleep and the final
\* attempt by none, so max_retries failing attempts sleep
\* retry_delay * (2^0 + ... + 2^(max_retries - 2)) in all.
C16_ExponentialBackoff ==
    \A p \in Procs :
        LET sl == proc[p].slept
            cl == proc[p].classes
        IN  /\ \A k \in DOMAIN sl : sl[k] = retry_delay * Pow2(k - 1)
            /\ Len(sl) <= max_retries - 1
            /\ proc[p].pc \in {"sleep", "dispatch"} => Len(sl) = Len(cl)
            /\ (Done(p) /\ cl # <<>>) => Len(sl) = Len(cl) - 1
            /\ (Done(p) /\ proc[p].failedAt = "dispatch") =>
                   /\ Len(cl) = max_retries
                   /\ SumSeq(sl) = retry_delay * (Pow2(max_retries - 1) - 1)

\* C16, reached: three attempts have failed after sleeps of retry_delay and
\* twice retry_delay.
C16_TwoSleepsThenRaise ==
    /\ Done(1)
    /\ proc[1].failedAt = "dispatch"
    /\ proc[1].slept = <<retry_delay, 2 * retry_delay>>

\* C17: for an unrecognized provider name a failed call of the OpenAI-compatible
\* fallback ends the dispatch: it is the only provider call, no sleep follows
\* and the call raises.
C17_FallbackFailsTerminally ==
    \A p \in Procs :
        ( /\ proc[p].classes # <<>>
          /\ Lower(SystemModels[proc[p].model_id].model_provider) \notin RecognizedProviders
          /\ proc[p].classes[1] # "ok" ) =>
            /\ Done(p)
            /\ proc[p].result.kind = "raised"
            /\ proc[p].providerCalls = 1
            /\ proc[p].slept = <<>>

RECURSIVE Flatten(_)
Flatten(ss) == IF ss = <<>> THEN <<>> ELSE Head(ss) \o Flatten(Tail(ss))

\* the contents of the deltas a body carries before its first `data: [DONE]`
\* line, in order; lines without the `data: ` prefix and chunks that are not
\* valid JSON carry none
DeltasBeforeDone(body) ==
    LET dones == { i \in DOMAIN body : body[i].data /\ body[i].chunk = "[DONE]" }
        last == IF dones = {} THEN Len(body)
                ELSE (CHOOSE i \in dones : \A j \in dones : i <= j) - 1
        deltas == SelectSeq(SubSeq(body, 1, last), LAMBDA l : l.data /\ l.chunk = "json")
    IN  Flatten([i \in DOMAIN deltas |-> deltas[i].content])

\* C18: with stream=True, for every provider family, a dispatch answered 200
\* yields the unified shape of the non-streaming path, and the text extracted
\* from it is the in-order concatenation of the content deltas received before
\* `data: [DONE]`.
C18_StreamYieldsUnifiedShapeAndText ==
    (pure.fn = "stream" /\ pure.out.ready) =>
        /\ pure.out.ok
        /\ pure.out.shape = "openai"
        /\ pure.out.usage # None
        /\ pure.out.text = DeltasBeforeDone(pure.arg.reply.body)

\* C19: tokens_used of a successful call is the provider-reported
\* usage.total_tokens when the provider reports it (an OpenAI-compatible,
\* non-streamed reply with a usage object) and otherwise
\* floor(cjk / 1.5 + other / 4) of the response text.
C19_TokensAreReportedOrEstimated ==
    (pure.fn = "tokens" /\ pure.out.ready /\ pure.out.ok) =>
        LET reported == /\ ~pure.arg.stream
                        /\ Lower(pure.arg.provider) \notin {"baidu", "wenxin"}
                        /\ pure.arg.reply.usage # None
        IN  pure.out.tokens_used =
                IF reported THEN pure.arg.reply.usage
                ELSE _estimate_tokens(Describe(pure.arg.reply.text))

\* C20: _get_model_identifier applied to its own result returns that result,
\* for every model name.
C20_IdentifierIsIdempotent ==
    (pure.fn = "identifier" /\ pure.out.ready) => pure.out.twice = pure.out.once

\* C20, reached: the name "DeepSeek-coder-x" has been normalized to
\* "deepseek-coder", and normalized again.
C20_MixedCaseNameNormalized ==
    /\ pure.fn = "identifier" /\ pure.out.ready
    /\ pure.arg.model_name = <<"DeepSeek", "coder", "x">>
    /\ pure.out.once = <<"deepseek", "coder">>
    /\ pure.out.twice = <<"deepseek", "coder">>

\* the per-user credential section 4.2 resolves for (user, model) in table cfgs:
\* the enabled row that carries a secret, or None
OwnCredential(cfgs, user_id, model_id) ==
    LET c == get_user_config_for_model(cfgs, user_id, model_id)
    IN  IF c # None /\ cfgs[c].is_enabled
           /\ (cfgs[c].api_key # "" \/ cfgs[c].api_key_encrypted # "")
        THEN c ELSE None

\* C24: credential resolution writes nothing, and when a call by user u on
\* model m that used u's own credential returns, last_used_at of u's
\* credential row for m has been updated and no other credential row differs
\* from what it was when the call started.
C24_OnlyOwnCredentialStamped ==
    \A p \in Procs :
        /\ proc[p].pc \in {"dispatch", "sleep"} => userConfigs = proc[p].pre.userConfigs
        /\ (Done(p) /\ proc[p].result.kind = "returned") =>
               LET before == proc[p].pre.userConfigs
                   own == OwnCredential(before, proc[p].req.user_id, proc[p].model_id)
               IN  own # None =>
                       /\ userConfigs[own].last_used_at # before[own].last_used_at
                       /\ userConfigs[own] =
                              [before[own] EXCEPT !.last_used_at = userConfigs[own].last_used_at]
                       /\ \A c \in DOMAIN userConfigs \ {own} : userConfigs[c] = before[c]

\* C27: when a call returns, the total_tokens of the record it wrote, the
\* tokens_used of its result and the amount by which the total_tokens of its
\* conversation grew are the same number.
C27_OneTotalEverywhere ==
    \A p \in Procs :
        (Done(p) /\ proc[p].result.kind = "returned") =>
            LET t == proc[p].result.tokens_used
                c == proc[p].result.conversation_id
                before == IF c \in DOMAIN proc[p].pre.convs
                          THEN proc[p].pre.convs[c].total_tokens ELSE 0
            IN  /\ Len(proc[p].written) = 1
                /\ proc[p].written[1].total_tokens = t
                /\ c \in DOMAIN convs
                /\ convs[c].total_tokens = before + t

\* C29: when a call raises, whatever the step that failed, the tables
\* conversations, messages and user_model_configs are what they were when the
\* call started, and the call log is what it was plus at most one record, a
\* failure record of this call.
C29_FailedCallOnlyAppendsItsRecord ==
    \A p \in Procs :
        (Done(p) /\ proc[p].result.kind = "raised") =>
            /\ convs = proc[p].pre.convs
            /\ messages = proc[p].pre.messages
            /\ userConfigs = proc[p].pre.userConfigs
            /\ Len(proc[p].written) <= 1
            /\ callLog = SubSeq(callLog, 1, proc[p].pre.logLen) \o proc[p].written
            /\ \A i \in DOMAIN proc[p].written :
                   ~proc[p].written[i].is_success /\ proc[p].written[i].status_code = 500

\* C29, reached: a turn on an existing conversation has failed at dispatch after
\* max_retries provider calls and has written its failure record.
C29_DispatchFailedOnExistingConversation ==
    /\ Done(1)
    /\ proc[1].result.kind = "raised"
    /\ proc[1].failedAt = "dispatch"
    /\ proc[1].providerCalls = max_retries
    /\ proc[1].req.conversation_id = 1
    /\ Len(proc[1].written) = 1
    /\ callLog = proc[1].written

\* C30: the rate-limit decision for a user on a model is the same in two states
\* that agree on the user's own records for the model within the trailing 60
\* seconds and differ only in other users' records for the model.
C30_DecisionIgnoresOtherUsers ==
    (pure.fn = "limiter" /\ pure.out.ready) => pure.out.rejectedA = pure.out.rejectedB

\* the title the system gives a conversation that was created without one
DefaultTitle == "新对话"

\* the title section 4.6 generates from a message: the message with its
\* whitespace collapsed, cut to 30 characters plus an ellipsis when longer
GeneratedTitle(message) ==
    IF message.collapsed > 30 THEN "message[:30]..." ELSE "message"

\* C25: when a turn on an existing conversation returns, the conversation's
\* title is the generated title if the conversation carried the default title
\* when the call started and is unchanged otherwise, and in both cases
\* message_count has grown by 2 and total_tokens by the turn's total.
C25_RetitleOnlyDefaultTitle ==
    \A p \in Procs :
        (Done(p) /\ proc[p].result.kind = "returned" /\ proc[p].req.conversation_id # None) =>
            LET c == proc[p].req.conversation_id
                before == proc[p].pre.convs[c]
            IN  /\ convs[c].title = IF before.title = DefaultTitle
                                    THEN GeneratedTitle(proc[p].req.message)
                                    ELSE before.title
                /\ convs[c].message_count = before.message_count + 2
                /\ convs[c].total_tokens = before.total_tokens + proc[p].result.tokens_used

\* C26: when a call returns, the conversation_id of its result names a
\* conversation that exists and belongs to the caller, and the last two
\* messages of that conversation are this turn's user message and assistant
\* message; this holds also when the storage failed while the turn was
\* persisted.
C26_ResultNamesPersistedConversation ==
    \A p \in Procs :
        (Done(p) /\ proc[p].result.kind = "returned") =>
            LET c == proc[p].result.conversation_id
                ms == MessagesOf(c)
                n == Len(ms)
            IN  /\ c \in DOMAIN convs
                /\ convs[c].user_id = proc[p].req.user_id
                /\ n >= 2
                /\ n = Len(SelectSeq(proc[p].pre.messages, LAMBDA m : m.conversation_id = c)) + 2
                /\ ms[n - 1].role = "user"
                /\ ms[n].role = "assistant"
                /\ ms[n].tokens_used = proc[p].result.tokens_used

----------------------------------------------------------------------------
\* the provider calls of a user for a model that the workers have made
Dispatched(user_id, model_id) ==
    { p \in Procs : /\ proc[p].req.user_id = user_id
                    /\ proc[p].model_id = model_id
                    /\ proc[p].providerCalls > 0 }

\* C22: the limiter decides on the CallRecords in the log when it checks, and
\* on nothing else: a call of a user for a model passes exactly when fewer
\* than L of his records for the model lie in the window, whatever calls of
\* his are in flight without a record yet, so concurrent calls all pass
C22_LimiterSeesOnlyWrittenRecords ==
    \A i \in DOMAIN limiterLog :
        LET e == limiterLog[i]
        IN  e.admitted <=> e.logged < SystemModels[e.model_id].rate_limit_per_minute

\* more calls of user 1 than the limit of deepseek-chat were dispatched to the
\* provider at the same instant, each admitted on a log without the others
C22_MoreThanLimitDispatched ==
    /\ Cardinality(Dispatched(1, 1)) > SystemModels[1].rate_limit_per_minute
    /\ \A i \in DOMAIN limiterLog : limiterLog[i].admitted /\ limiterLog[i].logged = 0
    /\ Len(limiterLog) = Cardinality(Procs)

----------------------------------------------------------------------------
\* worker p has returned a turn of conversation c
ReturnedTurn(p, c) ==
    /\ Done(p)
    /\ proc[p].result.kind = "returned"
    /\ proc[p].req.conversation_id = c

\* the turns of workers p and q on one conversation read the same counters
ReadSameCounters(p, q) ==
    /\ proc[p].read.found
    /\ proc[q].read.found
    /\ proc[p].read.row.message_count = proc[q].read.row.message_count
    /\ proc[p].read.row.total_tokens = proc[q].read.row.total_tokens

\* C21: nothing serialises the turns of one conversation: when two turns that
\* both returned read the same counters, the four messages are appended but
\* message_count has grown by 2 only and total_tokens by one turn's total
C21_OverlappingTurnsLoseAnIncrement ==
    \A p \in Procs, q \in Procs, c \in DOMAIN convs :
        (p # q /\ ReturnedTurn(p, c) /\ ReturnedTurn(q, c) /\ ReadSameCounters(p, q)) =>
            /\ Len(MessagesOf(c)) = Len(InitMessagesOf(c)) + 4
            /\ convs[c].message_count = proc[p].read.row.message_count + 2
            /\ convs[c].message_count < InitConvs[c].message_count + 4
            /\ convs[c].total_tokens \in
                   { proc[p].read.row.total_tokens + proc[w].tokens_used : w \in {p, q} }
            /\ convs[c].total_tokens <
                   InitConvs[c].total_tokens + proc[p].tokens_used + proc[q].tokens_used

\* both workers returned a turn of conversation 1 and one increment is lost
C21_TwoTurnsOneIncrement ==
    /\ ReturnedTurn(1, 1)
    /\ ReturnedTurn(2, 1)
    /\ ReadSameCounters(1, 2)
    /\ convs[1].message_count = InitConvs[1].message_count + 2
    /\ Len(MessagesOf(1)) = Len(InitMessagesOf(1)) + 4

\* worker p is persisting a turn of conversation c in this step
Persists(p, c) ==
    /\ proc[p].pc \in {"dispatch", "persist"}
    /\ proc'[p] # proc[p]
    /\ proc[p].req.conversation_id = c

\* C28: a turn appends messages to its conversation, or changes the counters
\* or the title of it, only if the conversation is then owned by the caller
\* and not soft-deleted, also when it was deleted while the provider answered
C28_NoTurnOnDeletedConversation ==
    [][\A p \in Procs, c \in DOMAIN convs :
          (/\ Persists(p, c)
           /\ \/ MessagesOf(c)' # MessagesOf(c)
              \/ convs'[c].message_count # convs[c].message_count
              \/ convs'[c].total_tokens # convs[c].total_tokens
              \/ convs'[c].title # convs[c].title)
          => (convs[c].user_id = proc[p].req.user_id /\ ~convs[c].is_deleted)]_vars

----------------------------------------------------------------------------
\* the rows of user_model_configs for a user and a model
RowsOf(user_id, model_id) ==
    { c \in DOMAIN userConfigs :
          userConfigs[c].user_id = user_id /\ userConfigs[c].model_id = model_id }

\* C23: whatever configuration requests were served, one after the other or
\* at the same time, no user has two rows for one model
C23_OneRowPerUserAndModel ==
    \A u \in Users, m \in ModelIds : Cardinality(RowsOf(u, m)) <= 1

====
